---- MODULE Spec2Model ----
(***************************************************************************)
(* Model of src/main.py: the UML class/aggregation model converter.        *)
(*                                                                         *)
(*   parse_xml_model       -> classes (OrderedDict), aggregations (list)   *)
(*   build_class_hierarchy -> root_class, containment (defaultdict(list))  *)
(*   generate_config_xml   -> the nested config tree (list of lines)       *)
(*   generate_meta_json    -> the metadata list                            *)
(*                                                                         *)
(* Python values are modelled as follows.                                  *)
(*   - an OrderedDict / dict / defaultdict is a sequence of                *)
(*     [key, val] records in insertion order;                              *)
(*   - a str that the code only compares or copies is a TLA+ string;       *)
(*   - a multiplicity str, which the code searches and splits, is a tuple  *)
(*     of one-character strings;                                           *)
(*   - None is the string None (for names), the tuple NoneMult (for        *)
(*     multiplicities) and the record NoneCls (for a classes slot);        *)
(*   - a raised exception is a status naming the exception class.          *)
(***************************************************************************)
EXTENDS Integers, Sequences, FiniteSets, TLC

VARIABLES
    xml,            \* the input document: its Class and Aggregation elements
    pc,             \* position in main(): "start", "parsed", "built", "aborted"
    parse_error,    \* the exception parse_xml_model raised, or "none"
    classes,        \* OrderedDict name -> class record or None
    aggregations,   \* list of aggregation records
    root_class,
    containment,    \* defaultdict(list) target -> list of {class, max, min}
    cfg_status,     \* "not_called", "ok" or the exception generate_config_xml raised
    config_xml,     \* the lines generate_config_xml joined and returned
    meta_called,    \* generate_meta_json has returned
    meta_data       \* the list generate_meta_json serialized

vars == <<xml, pc, parse_error, classes, aggregations, root_class, containment,
          cfg_status, config_xml, meta_called, meta_data>>

-----------------------------------------------------------------------------
(* Python values *)

None == "None"

NoneMult == <<"None">>

NoneCls == [none |-> TRUE]

(* Bounds of the model *)

\* Aggregation elements of a document that varies the containment edges
MaxAggs == 4

\* Class elements of a document that varies the class section
MaxClassElems == 3

\* Aggregation elements of a document that varies multiplicities and attributes
MaxMultAggs == 2

\* The interpreter's limit on nested build_element calls, scaled down: it
\* exceeds the deepest nesting an acyclic containment of the model's
\* documents has (one level per aggregation, plus the root).
RecursionLimit == 8

-----------------------------------------------------------------------------
(* dict operations: k in d, d[k], d[k] = v *)

DictHas(d, k) == \E i \in 1..Len(d) : d[i].key = k

DictGet(d, k) == d[CHOOSE i \in 1..Len(d) : d[i].key = k].val

DictSet(d, k, v) ==
    IF DictHas(d, k)
    THEN [i \in 1..Len(d) |-> IF d[i].key = k THEN [key |-> k, val |-> v] ELSE d[i]]
    ELSE Append(d, [key |-> k, val |-> v])

-----------------------------------------------------------------------------
(* parse_xml_model *)

class_order == <<"MetricJob", "CPLANE", "MGMT", "RU", "HWE", "COMM", "BTS">>

\* mutant: the canonical slots are not created before the Class elements are read
InitialClassesMutant == <<>>

\* for class_name in class_order: classes[class_name] = None
InitialClasses == [i \in 1..Len(class_order) |-> [key |-> class_order[i], val |-> NoneCls]]

\* str.lower() on the values the isRoot attribute takes in the model
Lower(s) == IF s \in {"True", "TRUE", "true"} THEN "true" ELSE s

\* elem.get(name, default)
GetOr(v, default) == IF v = None THEN default ELSE v

ParseAttributes(attrs) ==
    [i \in 1..Len(attrs) |-> [name |-> attrs[i].name, type |-> attrs[i].type]]

ParseClassElem(elem) ==
    [name          |-> elem.name,
     isRoot        |-> (Lower(GetOr(elem.isRoot, "false")) = "true"),
     documentation |-> GetOr(elem.documentation, ""),
     attributes    |-> ParseAttributes(elem.attrs)]

RECURSIVE ParseClasses(_, _, _)
ParseClasses(elems, i, acc) ==
    IF i > Len(elems) THEN acc
    ELSE ParseClasses(elems, i + 1, DictSet(acc, elems[i].name, ParseClassElem(elems[i])))

\* '..' in s
ContainsRange(s) == \E i \in 1..(Len(s) - 1) : s[i] = "." /\ s[i + 1] = "."

\* s.split('..'): left-to-right, non-overlapping
RECURSIVE SplitRange(_, _, _, _)
SplitRange(s, i, cur, parts) ==
    IF i > Len(s) THEN Append(parts, cur)
    ELSE IF i < Len(s) /\ s[i] = "." /\ s[i + 1] = "."
         THEN SplitRange(s, i + 2, <<>>, Append(parts, cur))
         ELSE SplitRange(s, i + 1, Append(cur, s[i]), parts)

ParseAggElem(elem) ==
    LET sm == elem.sourceMultiplicity
        parts == SplitRange(sm, 1, <<>>, <<>>)
        mk(lo, hi) == [source     |-> elem.source,
                       target     |-> elem.target,
                       source_min |-> lo,
                       source_max |-> hi,
                       target_min |-> elem.targetMultiplicity,
                       target_max |-> elem.targetMultiplicity]
    IN  IF sm = NoneMult THEN [error |-> "TypeError"]
        ELSE IF ContainsRange(sm)
             THEN IF Len(parts) = 2
                  THEN [error |-> "none", agg |-> mk(parts[1], parts[2])]
                  ELSE [error |-> "ValueError"]
             ELSE [error |-> "none", agg |-> mk(sm, sm)]

RECURSIVE ParseAggs(_, _, _)
ParseAggs(elems, i, acc) ==
    IF i > Len(elems) THEN [error |-> "none", aggregations |-> acc]
    ELSE LET r == ParseAggElem(elems[i])
         IN  IF r.error # "none" THEN [error |-> r.error]
             ELSE ParseAggs(elems, i + 1, Append(acc, r.agg))

parse_xml_model(doc) ==
    LET cl == ParseClasses(doc.classes, 1, InitialClasses)
        ag == ParseAggs(doc.aggregations, 1, <<>>)
    IN  IF ag.error # "none" THEN [error |-> ag.error]
        ELSE [error |-> "none", classes |-> cl, aggregations |-> ag.aggregations]

-----------------------------------------------------------------------------
(* build_class_hierarchy *)

RECURSIVE BuildContainment(_, _, _)
BuildContainment(aggs, i, acc) ==
    IF i > Len(aggs) THEN acc
    ELSE LET a == aggs[i]
             item == [class |-> a.source, max |-> a.source_max, min |-> a.source_min]
             old == IF DictHas(acc, a.target) THEN DictGet(acc, a.target) ELSE <<>>
         IN  BuildContainment(aggs, i + 1, DictSet(acc, a.target, Append(old, item)))

build_class_hierarchy(aggs) ==
    [root_class |-> "BTS", containment |-> BuildContainment(aggs, 1, <<>>)]

-----------------------------------------------------------------------------
(* list.sort(key=...): a stable sort; keys[i] is the key of seq[i] *)

SortPos(keys, i) ==
    Cardinality({j \in 1..Len(keys) : keys[j] < keys[i]})
    + Cardinality({j \in 1..(i - 1) : keys[j] = keys[i]}) + 1

StableSort(seq, keys) ==
    [p \in 1..Len(seq) |-> seq[CHOOSE i \in 1..Len(seq) : SortPos(keys, i) = p]]

\* list.index(x), 0-based; -1 stands for the ValueError it raises
Index(list, x) ==
    IF \E i \in 1..Len(list) : list[i] = x
    THEN (CHOOSE i \in 1..Len(list) : list[i] = x /\ \A j \in 1..(i - 1) : list[j] # x) - 1
    ELSE -1

-----------------------------------------------------------------------------
(* generate_config_xml *)

\* mutant: the key's two values are swapped
MgmtConfigKeyMutant(item) == IF item.class = "MetricJob" THEN 1 ELSE 0

\* lambda x: 0 if x['class'] == 'MetricJob' else 1
MgmtConfigKey(item) == IF item.class = "MetricJob" THEN 0 ELSE 1

\* mutant: the first two priorities are swapped
BtsPriorityMutant == <<"HWE", "MGMT", "COMM">>

BtsPriority == <<"MGMT", "HWE", "COMM">>

\* lambda x: ['MGMT', 'HWE', 'COMM'].index(x['class'])
BtsConfigKey(item) == Index(BtsPriority, item.class)

\* mutant: the root's priority sort is applied to the children of every class
SortContainedMutant(class_name, contained) ==
    IF \E i \in 1..Len(contained) : BtsConfigKey(contained[i]) = -1
    THEN [error |-> "ValueError", list |-> contained]
    ELSE [error |-> "none",
          list |-> StableSort(contained, [i \in 1..Len(contained) |-> BtsConfigKey(contained[i])])]

\* the in-place sort of containment[class_name]; a key that raises leaves the list as it was
SortContained(class_name, contained) ==
    IF class_name = "MGMT"
    THEN [error |-> "none",
          list |-> StableSort(contained, [i \in 1..Len(contained) |-> MgmtConfigKey(contained[i])])]
    ELSE IF class_name = "BTS"
    THEN IF \E i \in 1..Len(contained) : BtsConfigKey(contained[i]) = -1
         THEN [error |-> "ValueError", list |-> contained]
         ELSE [error |-> "none",
               list |-> StableSort(contained, [i \in 1..Len(contained) |-> BtsConfigKey(contained[i])])]
    ELSE [error |-> "none", list |-> contained]

OpenLine(class_name, indent) ==
    [spaces |-> 4 * indent, kind |-> "open", name |-> class_name, text |-> ""]

CloseLine(class_name, indent) ==
    [spaces |-> 4 * indent, kind |-> "close", name |-> class_name, text |-> ""]

AttrLines(attributes, indent) ==
    [i \in 1..Len(attributes) |->
        [spaces |-> 4 * indent + 4, kind |-> "leaf",
         name |-> attributes[i].name, text |-> attributes[i].type]]

Raise(exc, cont) == [status |-> exc, lines |-> <<>>, cont |-> cont]

\* build_element(class_name, indent) with the closure's classes and containment
\* passed explicitly; cont is threaded because the sort is in place; depth is
\* the number of build_element frames on the interpreter stack.
RECURSIVE build_element(_, _, _, _, _)
RECURSIVE build_contained(_, _, _, _, _, _, _)
build_element(cls_map, class_name, indent, cont, depth) ==
    IF depth > RecursionLimit THEN Raise("RecursionError", cont)
    ELSE IF ~DictHas(cls_map, class_name) THEN Raise("KeyError", cont)
    ELSE IF DictGet(cls_map, class_name) = NoneCls THEN Raise("TypeError", cont)
    ELSE
      LET cls  == DictGet(cls_map, class_name)
          head == <<OpenLine(class_name, indent)>> \o AttrLines(cls.attributes, indent)
      IN  IF DictHas(cont, class_name)
          THEN LET s == SortContained(class_name, DictGet(cont, class_name))
               IN  IF s.error # "none" THEN Raise(s.error, cont)
                   ELSE LET r == build_contained(cls_map, s.list, 1, indent + 1,
                                                 DictSet(cont, class_name, s.list),
                                                 depth + 1, head)
                        IN  IF r.status # "ok" THEN r
                            ELSE [r EXCEPT !.lines = Append(@, CloseLine(class_name, indent))]
          ELSE [status |-> "ok",
                lines  |-> Append(head, CloseLine(class_name, indent)),
                cont   |-> cont]

\* for item in contained: element_lines.extend(build_element(item['class'], indent + 1))
build_contained(cls_map, contained, i, indent, cont, depth, acc) ==
    IF i > Len(contained) THEN [status |-> "ok", lines |-> acc, cont |-> cont]
    ELSE LET r == build_element(cls_map, contained[i].class, indent, cont, depth)
         IN  IF r.status # "ok" THEN r
             ELSE build_contained(cls_map, contained, i + 1, indent, r.cont, depth,
                                  acc \o r.lines)

generate_config_xml(cls_map, root, cont) == build_element(cls_map, root, 0, cont, 1)

-----------------------------------------------------------------------------
(* generate_meta_json *)

RECURSIVE BuildSourceInfo(_, _, _)
BuildSourceInfo(aggs, i, acc) ==
    IF i > Len(aggs) THEN acc
    ELSE LET a == aggs[i]
             inner == IF DictHas(acc, a.source) THEN DictGet(acc, a.source) ELSE <<>>
             v == [max |-> a.source_max, min |-> a.source_min]
         IN  BuildSourceInfo(aggs, i + 1, DictSet(acc, a.source, DictSet(inner, a.target, v)))

\* target = next(iter(source_info[class_name])); its max and min
ResolveMultiplicity(source_info, class_name) ==
    IF DictHas(source_info, class_name)
    THEN LET inner == DictGet(source_info, class_name)
             target == inner[1].key
         IN  [max |-> DictGet(inner, target).max, min |-> DictGet(inner, target).min]
    ELSE [max |-> NoneMult, min |-> NoneMult]

\* mutant: the aggregation is matched on its source
IsTargetMutant(agg, class_name) == agg.source = class_name

\* agg['target'] == class_name
IsTarget(agg, class_name) == agg.target = class_name

ContainedClasses(aggs, class_name) ==
    LET sel == SelectSeq(aggs, LAMBDA a : IsTarget(a, class_name))
    IN  [i \in 1..Len(sel) |-> [name |-> sel[i].source, type |-> "class"]]

\* lambda x: 0 if x['name'] == 'MetricJob' else 1
MgmtMetaKey(param) == IF param.name = "MetricJob" THEN 0 ELSE 1

SortContainedClasses(class_name, cc) ==
    IF class_name = "MGMT"
    THEN StableSort(cc, [i \in 1..Len(cc) |-> MgmtMetaKey(cc[i])])
    ELSE cc

MetaEntry(cls_map, aggs, source_info, class_name) ==
    LET cls == DictGet(cls_map, class_name)
        m == ResolveMultiplicity(source_info, class_name)
        parameters == ParseAttributes(cls.attributes)
                      \o SortContainedClasses(class_name, ContainedClasses(aggs, class_name))
    IN  IF m.max # NoneMult /\ m.min # NoneMult
        THEN [class |-> class_name, documentation |-> cls.documentation,
              isRoot |-> cls.isRoot, max |-> m.max, min |-> m.min,
              parameters |-> parameters]
        ELSE [class |-> class_name, documentation |-> cls.documentation,
              isRoot |-> cls.isRoot, parameters |-> parameters]

\* the list meta_data that json.dumps renders, entry for entry, in list order
generate_meta_json(cls_map, aggs) ==
    LET source_info == BuildSourceInfo(aggs, 1, <<>>)
        loaded == SelectSeq(cls_map, LAMBDA e : e.val # NoneCls)
    IN  [i \in 1..Len(loaded) |-> MetaEntry(cls_map, aggs, source_info, loaded[i].key)]

-----------------------------------------------------------------------------
(* Input documents *)

ClassElem(n, root, doc, attrs) ==
    [name |-> n, isRoot |-> root, documentation |-> doc, attrs |-> attrs]

AggElem(s, t, sm, tm) ==
    [source |-> s, target |-> t, sourceMultiplicity |-> sm, targetMultiplicity |-> tm]

Edge(s, t) == AggElem(s, t, <<"1">>, <<"1">>)

IdAttr == [name |-> "id", type |-> "uint32"]

NameAttr == [name |-> "name", type |-> "string"]

\* a class section that loads every canonical class, not in canonical order
FullClassSection ==
    <<ClassElem("BTS", "true", "Base station", <<IdAttr, NameAttr>>),
      ClassElem("MGMT", "false", None, <<>>),
      ClassElem("COMM", None, None, <<>>),
      ClassElem("MetricJob", "false", "Perf job", <<IdAttr>>),
      ClassElem("CPLANE", None, None, <<>>),
      ClassElem("RU", None, None, <<IdAttr>>),
      ClassElem("HWE", None, None, <<>>)>>

\* containment edges: the reference hierarchy and an edge that closes a cycle
TreeAggChoices ==
    {Edge("MGMT", "BTS"), Edge("HWE", "BTS"), Edge("COMM", "BTS"),
     Edge("MetricJob", "MGMT"), Edge("CPLANE", "MGMT"), Edge("RU", "MGMT"),
     Edge("MGMT", "MGMT")}

ClassElemChoices ==
    {ClassElem(n, None, None, <<>>) :
        n \in {"MetricJob", "MGMT", "HWE", "BTS", "X", None}}
    \cup {ClassElem("BTS", "True", "Base station", <<IdAttr>>),
          ClassElem("MGMT", "false", "", <<IdAttr, NameAttr>>)}

\* a two-level hierarchy, a root child outside the priority list, and a
\* cycle through the root
ClassFamilyAggs ==
    {<<Edge("MetricJob", "MGMT"), Edge("MGMT", "BTS")>>,
     <<Edge("HWE", "BTS"), Edge("X", "BTS")>>,
     <<Edge("MGMT", "BTS"), Edge("BTS", "MGMT")>>}

MultChoices ==
    {<<"1">>, <<"0", ".", ".", "1">>, <<"0", ".", ".", ".", "1">>,
     <<"1", ".", ".", "2", ".", ".", "3">>}

MultAggChoices ==
    {AggElem(e[1], e[2], sm, <<"1">>) :
        e \in {<<"MetricJob", "MGMT">>, <<"MetricJob", "HWE">>, <<"MGMT", "BTS">>},
        sm \in MultChoices}
    \cup {AggElem(None, "MGMT", <<"1">>, <<"1">>),
          AggElem("MGMT", None, <<"1">>, <<"1">>),
          AggElem("MGMT", "BTS", NoneMult, <<"1">>),
          AggElem("MGMT", "BTS", <<"1">>, NoneMult)}

\* the documents of the model: three families, each varying one part of the input
TreeDocument(doc) ==
    \E k \in 0..MaxAggs : \E a \in [1..k -> TreeAggChoices] :
        doc = [classes |-> FullClassSection, aggregations |-> a]

ClassDocument(doc) ==
    \E k \in 0..MaxClassElems : \E c \in [1..k -> ClassElemChoices] :
        \E a \in ClassFamilyAggs : doc = [classes |-> c, aggregations |-> a]

MultDocument(doc) ==
    \E k \in 0..MaxMultAggs : \E a \in [1..k -> MultAggChoices] :
        doc = [classes |-> FullClassSection, aggregations |-> a]

-----------------------------------------------------------------------------
(* main(): parse, build the hierarchy, then the two serializers.  The two   *)
(* serializers are independent functions of the loaded model; the model     *)
(* lets them run in either order, main() runs generate_config_xml first.    *)

Init ==
    /\ \/ TreeDocument(xml)
       \/ ClassDocument(xml)
       \/ MultDocument(xml)
    /\ pc = "start"
    /\ parse_error = "none"
    /\ classes = <<>>
    /\ aggregations = <<>>
    /\ root_class = None
    /\ containment = <<>>
    /\ cfg_status = "not_called"
    /\ config_xml = <<>>
    /\ meta_called = FALSE
    /\ meta_data = <<>>

ParseXmlModel ==
    /\ pc = "start"
    /\ LET r == parse_xml_model(xml)
       IN  IF r.error = "none"
           THEN /\ pc' = "parsed"
                /\ classes' = r.classes
                /\ aggregations' = r.aggregations
                /\ UNCHANGED parse_error
           ELSE /\ pc' = "aborted"
                /\ parse_error' = r.error
                /\ UNCHANGED <<classes, aggregations>>
    /\ UNCHANGED <<xml, root_class, containment, cfg_status, config_xml,
                   meta_called, meta_data>>

BuildClassHierarchy ==
    /\ pc = "parsed"
    /\ LET r == build_class_hierarchy(aggregations)
       IN  /\ root_class' = r.root_class
           /\ containment' = r.containment
    /\ pc' = "built"
    /\ UNCHANGED <<xml, parse_error, classes, aggregations, cfg_status, config_xml,
                   meta_called, meta_data>>

GenerateConfigXml ==
    /\ pc = "built"
    /\ cfg_status = "not_called"
    /\ LET r == generate_config_xml(classes, root_class, containment)
       IN  /\ cfg_status' = r.status
           /\ config_xml' = r.lines
           /\ containment' = r.cont
    /\ UNCHANGED <<xml, pc, parse_error, classes, aggregations, root_class,
                   meta_called, meta_data>>

GenerateMetaJson ==
    /\ pc = "built"
    /\ ~meta_called
    /\ meta_data' = generate_meta_json(classes, aggregations)
    /\ meta_called' = TRUE
    /\ UNCHANGED <<xml, pc, parse_error, classes, aggregations, root_class,
                   containment, cfg_status, config_xml>>

Next ==
    \/ ParseXmlModel
    \/ BuildClassHierarchy
    \/ GenerateConfigXml
    \/ GenerateMetaJson

Spec == Init /\ [][Next]_vars

-----------------------------------------------------------------------------
(* Reading the outputs and the input *)

CanonicalEnumeration == <<"MetricJob", "CPLANE", "MGMT", "RU", "HWE", "COMM", "BTS">>

CanonicalNames == {CanonicalEnumeration[i] : i \in 1..Len(CanonicalEnumeration)}

RootPriority == <<"MGMT", "HWE", "COMM">>

HasClassElement(n) == \E i \in 1..Len(xml.classes) : xml.classes[i].name = n

Loaded(n) == DictHas(classes, n) /\ DictGet(classes, n) # NoneCls

\* the sources of the aggregations whose target is t, in declaration order
DeclaredSources(t) ==
    LET sel == SelectSeq(aggregations, LAMBDA a : a.target = t)
    IN  [i \in 1..Len(sel) |-> sel[i].source]

Without(seq, n) == SelectSeq(seq, LAMBDA x : x # n)

Occurs(seq, n) == \E i \in 1..Len(seq) : seq[i] = n

\* the line that closes the element opened at line i
CloseOf(lines, i) ==
    CHOOSE k \in (i + 1)..Len(lines) :
        /\ lines[k].kind = "close" /\ lines[k].spaces = lines[i].spaces
        /\ \A m \in (i + 1)..(k - 1) :
              ~(lines[m].kind = "close" /\ lines[m].spaces = lines[i].spaces)

\* the class elements nested directly inside the element opened at line i
ChildNames(lines, i) ==
    LET idx == SelectSeq([j \in 1..Len(lines) |-> j],
                         LAMBDA j : /\ j > i /\ j < CloseOf(lines, i)
                                    /\ lines[j].kind = "open"
                                    /\ lines[j].spaces = lines[i].spaces + 4)
    IN  [m \in 1..Len(idx) |-> lines[idx[m]].name]

OpensOf(lines, n) == {i \in 1..Len(lines) : lines[i].kind = "open" /\ lines[i].name = n}

NestedDirectly(lines, s, t) == \E i \in OpensOf(lines, t) : Occurs(ChildNames(lines, i), s)

EntriesOf(n) == {i \in 1..Len(meta_data) : meta_data[i].class = n}

HasClassParameter(t, s) ==
    \E i \in EntriesOf(t) : Occurs(meta_data[i].parameters, [name |-> s, type |-> "class"])

\* the parameters of entry i that follow the class's own attributes
SyntheticNames(i) ==
    LET ps == meta_data[i].parameters
        n  == Len(DictGet(classes, meta_data[i].class).attributes)
    IN  [m \in 1..(Len(ps) - n) |-> ps[n + m].name]

\* classes contained, directly or transitively, in the classes of set
RECURSIVE ContainedIn(_)
ContainedIn(set) ==
    LET more == set \cup {aggregations[i].source : i \in
                    {j \in 1..Len(aggregations) : aggregations[j].target \in set}}
    IN  IF more = set THEN set ELSE ContainedIn(more)

Reachable == ContainedIn({"BTS"})

Children(n) == {aggregations[i].source : i \in
                    {j \in 1..Len(aggregations) : aggregations[j].target = n}}

CycleReachable == \E n \in Reachable : n \in ContainedIn(Children(n))

ConfigReturned == cfg_status = "ok"

ConfigCalled == cfg_status # "not_called"

-----------------------------------------------------------------------------
(* C1 *)

\* C1 as stated: when both serializers have returned, every aggregation
\* (s, t) of the input has <s> nested directly inside <t> in the config tree
\* and a parameter {name: s, type: "class"} in t's metadata entry.
C1_EveryEdgeInBothOutputs ==
    (ConfigReturned /\ meta_called) =>
        \A i \in 1..Len(aggregations) :
            /\ NestedDirectly(config_xml, aggregations[i].source, aggregations[i].target)
            /\ HasClassParameter(aggregations[i].target, aggregations[i].source)

\* C1 amended: in a config tree that generate_config_xml returns, every
\* aggregation (s, t) whose target is BTS or contained (transitively) in BTS
\* has <s> nested directly inside <t>; in the metadata, every aggregation
\* (s, t) whose target has a Class element in the input has the parameter
\* {name: s, type: "class"} in t's entry.
C1_ReachableEdgesInBothOutputs ==
    /\ ConfigReturned =>
          \A i \in 1..Len(aggregations) :
              aggregations[i].target \in Reachable =>
                  NestedDirectly(config_xml, aggregations[i].source, aggregations[i].target)
    /\ meta_called =>
          \A i \in 1..Len(aggregations) :
              HasClassElement(aggregations[i].target) =>
                  HasClassParameter(aggregations[i].target, aggregations[i].source)

\* both outputs exist for an input with an edge into the root, nested in the
\* tree, and an edge whose target is outside the tree
C1_Witness ==
    /\ ConfigReturned /\ meta_called
    /\ \E i, k \in 1..Len(aggregations) :
          /\ aggregations[i].target = "BTS"
          /\ NestedDirectly(config_xml, aggregations[i].source, "BTS")
          /\ HasClassParameter("BTS", aggregations[i].source)
          /\ aggregations[k].target \notin Reachable

-----------------------------------------------------------------------------
(* C2 *)

Count(seq, n) == Cardinality({i \in 1..Len(seq) : seq[i] = n})

\* C2: each canonical class that has a Class element in the input appears
\* exactly once in the metadata list (a canonical class without one does not
\* appear), and the canonical entries appear in canonical enumeration order.
C2_CanonicalOnceInOrder ==
    meta_called =>
        LET names == [i \in 1..Len(meta_data) |-> meta_data[i].class]
        IN  /\ \A c \in CanonicalNames :
                  Count(names, c) = IF HasClassElement(c) THEN 1 ELSE 0
            /\ \A i, j \in 1..Len(names) :
                  (i < j /\ names[i] \in CanonicalNames /\ names[j] \in CanonicalNames)
                      => Index(CanonicalEnumeration, names[i])
                             < Index(CanonicalEnumeration, names[j])

\* the input names BTS before MetricJob and repeats a Class element
C2_Witness ==
    /\ meta_called
    /\ \E i, j, k \in 1..Len(xml.classes) :
          /\ i < j /\ j < k
          /\ xml.classes[i].name = "BTS"
          /\ xml.classes[j].name = "MetricJob"
          /\ xml.classes[k].name = "BTS"

-----------------------------------------------------------------------------
(* C3 *)

\* C3: in a returned config tree the direct children of the root BTS are
\* classes of the priority list MGMT, HWE, COMM and appear in that order.
C3_RootChildrenInPriorityOrder ==
    ConfigReturned =>
        LET ch == ChildNames(config_xml, 1)
        IN  /\ config_xml[1].name = "BTS"
            /\ Len(ch) = Len(DeclaredSources("BTS"))
            /\ \A i \in 1..Len(ch) : Index(RootPriority, ch[i]) >= 0
            /\ \A i, j \in 1..Len(ch) :
                  i < j => Index(RootPriority, ch[i]) <= Index(RootPriority, ch[j])

\* the three root children were declared in another order than the priority order
C3_Witness ==
    /\ ConfigReturned
    /\ ChildNames(config_xml, 1) = RootPriority
    /\ DeclaredSources("BTS") = <<"COMM", "HWE", "MGMT">>

-----------------------------------------------------------------------------
(* C4 *)

\* MetricJob leads seq, and the rest of seq is the rest of the declaration order
MetricJobFirst(seq, declared) ==
    /\ Occurs(declared, "MetricJob") => seq[1] = "MetricJob"
    /\ Without(seq, "MetricJob") = Without(declared, "MetricJob")
    /\ Len(seq) = Len(declared)

\* C4: when MetricJob is contained in MGMT it is the first child of every
\* <MGMT> of the config tree and the first synthetic parameter of MGMT's
\* metadata entry, and MGMT's other children keep their declaration order.
C4_MetricJobFirstInMgmt ==
    /\ ConfigReturned =>
          \A i \in OpensOf(config_xml, "MGMT") :
              MetricJobFirst(ChildNames(config_xml, i), DeclaredSources("MGMT"))
    /\ meta_called =>
          \A i \in EntriesOf("MGMT") :
              MetricJobFirst(SyntheticNames(i), DeclaredSources("MGMT"))

\* MGMT is in the tree and in the metadata; MetricJob was declared between two others
C4_Witness ==
    /\ ConfigReturned /\ meta_called
    /\ OpensOf(config_xml, "MGMT") # {}
    /\ EntriesOf("MGMT") # {}
    /\ DeclaredSources("MGMT") = <<"RU", "MetricJob", "CPLANE">>

-----------------------------------------------------------------------------
(* C5 *)

IsSource(n) == \E i \in 1..Len(aggregations) : aggregations[i].source = n

FirstAggregationOf(n) ==
    aggregations[CHOOSE i \in 1..Len(aggregations) :
        /\ aggregations[i].source = n
        /\ \A j \in 1..(i - 1) : aggregations[j].source # n]

\* C5: the min and max of the metadata entry of a class that is the source of
\* some aggregation are the source_min and source_max of the first
\* aggregation, in declaration order, whose source is that class.
C5_FirstAggregationIsAuthoritative ==
    meta_called =>
        \A i \in 1..Len(meta_data) :
            IsSource(meta_data[i].class) =>
                /\ {"min", "max"} \subseteq DOMAIN meta_data[i]
                /\ meta_data[i].min = FirstAggregationOf(meta_data[i].class).source_min
                /\ meta_data[i].max = FirstAggregationOf(meta_data[i].class).source_max

-----------------------------------------------------------------------------
(* C6 *)

\* C6: a Class element with a name outside the canonical enumeration is not
\* retained in the classes mapping parse_xml_model returns and has no entry
\* in the metadata.
C6_NonCanonicalIgnored ==
    /\ pc \in {"parsed", "built"} =>
          \A i \in 1..Len(classes) : classes[i].key \in CanonicalNames
    /\ meta_called =>
          \A i \in 1..Len(meta_data) : meta_data[i].class \in CanonicalNames

-----------------------------------------------------------------------------
(* C7 *)

MissingRequiredAttribute ==
    \/ \E i \in 1..Len(xml.classes) : xml.classes[i].name = None
    \/ \E i \in 1..Len(xml.aggregations) :
          \/ xml.aggregations[i].source = None
          \/ xml.aggregations[i].target = None
          \/ xml.aggregations[i].sourceMultiplicity = NoneMult
          \/ xml.aggregations[i].targetMultiplicity = NoneMult

\* C7: parse_xml_model does not return when a required attribute is absent
\* from an element of the input.
C7_MissingAttributeAborts ==
    MissingRequiredAttribute => pc \in {"start", "aborted"}

-----------------------------------------------------------------------------
(* C8 *)

\* C8: when the root is loaded and a class contained (transitively) in it
\* was never loaded, the lookup by class name in generate_config_xml does
\* not fail.
C8_UnloadedClassTolerated ==
    (ConfigCalled /\ Loaded("BTS") /\ \E n \in Reachable : ~Loaded(n)) =>
        cfg_status \notin {"KeyError", "TypeError"}

-----------------------------------------------------------------------------
(* C9 *)

SerializerReturns ==
    \/ cfg_status = "not_called" /\ cfg_status' = "ok"
    \/ ~meta_called /\ meta_called'

\* C9: a serializer that returns leaves the classes mapping, the aggregations
\* list and the containment index, child order included, as they were.
C9_SerializersReadOnly ==
    [][SerializerReturns => UNCHANGED <<classes, aggregations, containment>>]_vars

-----------------------------------------------------------------------------
(* C10 *)

C10_Precondition ==
    /\ ConfigCalled
    /\ \A n \in Reachable : Loaded(n)
    /\ \A n \in Children("BTS") : Occurs(RootPriority, n)

\* C10: when every class reachable from BTS is loaded and the children of
\* BTS are among MGMT, HWE, COMM, generate_config_xml returns a tree exactly
\* when no containment cycle is reachable from BTS; with a reachable cycle
\* the recursion overflows the stack and no tree is produced.
C10_ReturnsIffAcyclic ==
    C10_Precondition =>
        /\ ConfigReturned <=> ~CycleReachable
        /\ CycleReachable => (cfg_status = "RecursionError" /\ config_xml = <<>>)

\* a cycle below the root: MGMT contains itself
C10_Witness ==
    /\ C10_Precondition
    /\ "MGMT" \in Children("MGMT")
    /\ "BTS" \notin Children("MGMT")
    /\ cfg_status = "RecursionError"

====
